---- MODULE Spec2Model ----
(***************************************************************************)
(* Bulk-upload pipeline of the EEPROM writer firmware (Z command):         *)
(*   base64 decoder  ->  inflate engine (puffs)  ->  EepromWriter sink     *)
(*   ->  storage device.                                                   *)
(* Integers are those of the target (Arduino Mega 2560, AVR): int and      *)
(* unsigned are 16 bits wide, long and unsigned long 32 bits.              *)
(***************************************************************************)
EXTENDS Integers, Sequences, FiniteSets, TLC

VARIABLES
    ew,        \* struct EepromWriter: base_address, buf, bufidx, outlen, chksum
    eeprom,    \* storage device: address -> byte, for the addresses written so far
    fill,      \* what the device held before the upload (every address)
    out,       \* history: every byte stored into ew.buf, in order (the emitted stream)
    pc,        \* position inside BulkWriteEEPROM: "puffs", "flush", "trailer",
               \* "done", or "waiting" (inside ReadString, for a line)
    status,    \* return value of puffs
    calls,     \* number of write/rewrite calls puffs has made in this run
    last,      \* the last sink call: arguments, return value, device traffic
    script,    \* the calls of the first run of the upload, in order
    run,       \* 1: first run of the upload, 2: the same upload run again
    first,     \* device contents and checksum the first run ended with
    want,      \* the bytes the compressed stream encodes, as far as it is decoded
    report,    \* what BulkWriteEEPROM printed at the end: STATUS, BYTES, ADLER32
    image,     \* the device image being uploaded, when the upload is a whole image
    sr,        \* struct SerialReader: buf, buflen, bufidx
    srlog,     \* lines read, acknowledgements printed and bytes handed out, in order
    srlast,    \* the last sr_read call: request, return value, bytes handed out
    host,      \* lines the host has sent and ReadString has not returned yet
    b64,       \* struct B64Decoder: stack, n
    wire,      \* the whole text the decoder's source has to supply
    src,       \* text the decoder's source has yet to supply
    plain,     \* the bytes src encodes (when valid), else << >>
    valid,     \* src is the padded base64 encoding of plain
    got,       \* bytes b64_read has delivered so far, in order
    b64last,   \* the last b64_read call: request, return value, what it touched
    ch,        \* character handed to _b64bits
    bits       \* what _b64bits returned for ch

vars == <<ew, eeprom, fill, out, pc, status, calls, last, script, run, first,
          want, report, image, sr, srlog, srlast, host,
          b64, wire, src, plain, valid, got, b64last, ch, bits>>

sinkVars == <<ew, eeprom, fill, out, pc, status, calls, last, script, run, first,
              want, report, image>>
srVars   == <<sr, srlog, srlast, host>>
b64Vars  == <<b64, wire, src, plain, valid, got, b64last>>
bitsVars == <<ch, bits>>

----------------------------------------------------------------------------
(* Program constants *)

ew_bufsiz == 64
kMaxBufferSize == 64
eeprom_size == 32768
AddrPins == 15
\* the sums taken modulo 2^16
AdlerBase_Pow2 == 256 * 256
AdlerBase == 65521

(* Bounds of the model *)

MaxCalls == 3       \* write/rewrite calls puffs makes in one upload
MaxLen == 4         \* length of the byte sequences that are base64-encoded
MaxReads == 2       \* b64_read calls made on one text
MaxTail == 2        \* sink calls puffs makes after a whole image was emitted
MaxLines == 3       \* text lines the host sends to one SerialReader
MaxSrCalls == 3     \* sr_read calls made on one SerialReader
MaxPulls == 3       \* bytes puffs pulls from the decoder in one upload

----------------------------------------------------------------------------
(* Machine integers *)

Pow2(k) == 2 ^ k

\* conversion to a 16-bit unsigned
U16(x) == x % 65536

\* conversion of an unsigned long to int (16 bits, two's complement)
ToInt16(x) == LET u == x % 65536 IN IF u >= 32768 THEN u - 65536 ELSE u

\* unsigned long values (addresses, outlen, chksum) stay below 2^31 here and
\* are kept as they are; the one difference that can wrap, eeprom_size - outlen,
\* is converted to int at once, and 2^16 divides 2^32

\* x & m for a mask m that is a single bit
TestBit(x, m) == (x \div m) % 2 = 1

\* a slot of automatic storage that was never assigned
Indeterminate == 0 - 1

----------------------------------------------------------------------------
(* Storage device *)

\* SetAddress drives the 15 address pins: only the low 15 bits reach the chip
SetAddress(addr) == addr % Pow2(AddrPins)

ReadByteFrom(dev, erased, addr) ==
    LET a == SetAddress(addr) IN IF a \in DOMAIN dev THEN dev[a] ELSE erased

\* buf[0..size-1] read from addr, addr+1, ...
ReadEEPROMIntoBuffer(dev, erased, addr, size) ==
    [i \in 0..(size - 1) |-> ReadByteFrom(dev, erased, addr + i)]

\* buf[0..size-1] written to addr, addr+1, ...
WriteBufferToEEPROM(dev, buf, addr, size) ==
    LET cells == {SetAddress(addr + i) : i \in 0..(size - 1)}
        \* size never exceeds the number of cells, so one i reaches each cell
        idx(a) == (a - SetAddress(addr)) % Pow2(AddrPins)
    IN  [a \in cells |-> buf[idx(a)]] @@ dev

----------------------------------------------------------------------------
(* Running checksum *)

\* A 32-bit checksum is kept as its two 16-bit halves, [hi, lo] for
\* (hi << 16) | lo: the whole value does not fit TLC's 32-bit integers.
Word32(hi, lo) == [hi |-> hi, lo |-> lo]

\* one byte: a += byte, b += a, both modulo 65521, combined as (b << 16) | a
AdlerByte(adler, byte) ==
    LET a == (adler.lo + byte) % AdlerBase
        b == (adler.hi + a) % AdlerBase
    IN  Word32(b, a)

\* the bytes buf[lo..hi-1] in order: the first half of the range is worked
\* out before the second is entered, which keeps the evaluation shallow
RECURSIVE AdlerRange(_, _, _, _)
AdlerRange(adler, buf, lo, hi) ==
    IF hi <= lo THEN adler
    ELSE IF hi = lo + 1 THEN AdlerByte(adler, buf[lo])
    ELSE LET mid == (lo + hi) \div 2
             half == AdlerRange(adler, buf, lo, mid)
         IN  IF half.lo >= 0 THEN AdlerRange(half, buf, mid, hi) ELSE half

adler32(adler, buf, len) == AdlerRange(adler, buf, 0, len)

----------------------------------------------------------------------------
(* EepromWriter.  A machine M is the writer, the device and the traffic    *)
(* counters of the call in progress:                                       *)
(*   M.ew, M.dev, M.erased, M.out, M.from, M.reads, M.wbytes, M.flushes,   *)
(*   M.wlog (address and size of every WriteBufferToEEPROM call), M.rlog   *)
(*   (address and size of every ReadEEPROMIntoBuffer call, with the bounds *)
(*   lo, hi of the region flushed so far), M.ret                           *)

\* a writer whose checksum starts at 0
ew_init_ZeroSeed(base_address) ==
    [base_address |-> base_address,
     buf |-> [i \in 0..(ew_bufsiz - 1) |-> Indeterminate],
     bufidx |-> 0,
     outlen |-> 0,
     chksum |-> Word32(0, 0)]

ew_init(base_address) ==
    [base_address |-> base_address,
     buf |-> [i \in 0..(ew_bufsiz - 1) |-> Indeterminate],
     bufidx |-> 0,
     outlen |-> 0,
     chksum |-> Word32(0, 1)]

\* a flush that also wipes the buffer
ew_flush_Clearing(M) ==
    LET e == M.ew IN
    [M EXCEPT !.ew.chksum = adler32(e.chksum, e.buf, e.bufidx),
              !.dev = WriteBufferToEEPROM(M.dev, e.buf,
                          e.base_address + e.outlen - e.bufidx, e.bufidx),
              !.ew.bufidx = 0,
              !.ew.buf = [i \in 0..(ew_bufsiz - 1) |-> 0],
              !.wbytes = @ + e.bufidx,
              !.flushes = @ + 1,
              !.wlog = Append(@, [addr |-> e.base_address + e.outlen - e.bufidx,
                                  size |-> e.bufidx])]

\* a flush of the whole buffer, whatever the cursor
ew_flush_WholeBuffer(M) ==
    LET e == M.ew IN
    [M EXCEPT !.ew.chksum = adler32(e.chksum, e.buf, ew_bufsiz),
              !.dev = WriteBufferToEEPROM(M.dev, e.buf,
                          e.base_address + e.outlen - e.bufidx, ew_bufsiz),
              !.ew.bufidx = 0,
              !.wbytes = @ + ew_bufsiz,
              !.flushes = @ + 1,
              !.wlog = Append(@, [addr |-> e.base_address + e.outlen - e.bufidx,
                                  size |-> ew_bufsiz])]

ew_flush(M) ==
    LET e == M.ew IN
    [M EXCEPT !.ew.chksum = adler32(e.chksum, e.buf, e.bufidx),
              !.dev = WriteBufferToEEPROM(M.dev, e.buf,
                          e.base_address + e.outlen - e.bufidx, e.bufidx),
              !.ew.bufidx = 0,
              !.wbytes = @ + e.bufidx,
              !.flushes = @ + 1,
              !.wlog = Append(@, [addr |-> e.base_address + e.outlen - e.bufidx,
                                  size |-> e.bufidx])]

\* line 318: the request is cut at the end of the device
WriteLimit(n, outlen) ==
    IF n + outlen > eeprom_size THEN ToInt16(eeprom_size - outlen) ELSE n

\* the buffer taken for full one byte early
BufFull_Early(bufidx) == bufidx >= ew_bufsiz - 1

\* the buffer taken for full at half its size
BufFull_Half(bufidx) == bufidx >= ew_bufsiz \div 2

\* the buffer is full: bufidx has reached ew_bufsiz
BufFull(bufidx) == TestBit(bufidx, ew_bufsiz)

RECURSIVE ew_write_loop(_, _, _, _)
ew_write_loop(M, buf, actual, n) ==
    IF ~(actual < n) THEN [M EXCEPT !.ret = actual]
    ELSE LET M1 == IF BufFull(M.ew.bufidx) THEN ew_flush(M) ELSE M
             room == ew_bufsiz - M1.ew.bufidx
             k == IF n - actual > room THEN room ELSE n - actual
             at == M1.ew.bufidx
             M2 == [M1 EXCEPT
                      !.ew.buf = [j \in 0..(ew_bufsiz - 1) |->
                                    IF j >= at /\ j < at + k
                                    THEN buf[actual + (j - at)] ELSE @[j]],
                      !.ew.bufidx = @ + k,
                      !.ew.outlen = @ + k,
                      !.out = @ \o [i \in 1..k |-> buf[actual + i - 1]]]
         IN  ew_write_loop(M2, buf, actual + k, n)

ew_write(M, buf, n) ==
    ew_write_loop(M, buf, 0, WriteLimit(n, M.ew.outlen))

\* the range check off by one
TooFarBack_OffByOne(dist, outlen) == dist > outlen + 1

\* line 334
TooFarBack(dist, outlen) == dist > outlen

\* the buffer test with <= for <
InBuffer_Inclusive(dist) == dist <= ew_bufsiz

\* line 336: the referenced bytes are still in the rolling buffer
InBuffer(dist) == dist < ew_bufsiz

\* the start of the copy taken ahead of the cursor instead of behind it
RewriteFrom_Ahead(bufidx, dist) == U16(bufidx + dist) % ew_bufsiz

\* line 341: int from = (bufidx - dist) & (ew_bufsiz - 1), in unsigned arithmetic
RewriteFrom(bufidx, dist) == U16(bufidx - dist) % ew_bufsiz

\* line 344
WrapFrom(from) == IF TestBit(from, ew_bufsiz) THEN 0 ELSE from

\* lines 343-346: one pass of the copy loop; M.from is the local variable from
RewriteStep(M) ==
    LET M1 == IF BufFull(M.ew.bufidx) THEN ew_flush(M) ELSE M
        f == WrapFrom(M1.from)
        b == M1.ew.buf[f]
    IN  [M1 EXCEPT !.ew.buf[M1.ew.bufidx] = b,
                   !.ew.bufidx = @ + 1,
                   !.ew.outlen = @ + 1,
                   !.out = Append(@, b),
                   !.from = f + 1]

\* for (i = 0; i < n; i++): n passes, one after the other; the first half of
\* the passes is worked out before the second is entered, which keeps the
\* evaluation shallow
RECURSIVE RewriteLoop(_, _)
RewriteLoop(M, n) ==
    IF n <= 0 THEN M
    ELSE IF n = 1 THEN RewriteStep(M)
    ELSE LET half == RewriteLoop(M, n \div 2)
         IN  IF half.ew.bufidx >= 0 THEN RewriteLoop(half, n - (n \div 2)) ELSE half

ew_rewrite_near(M, from, n) == RewriteLoop([M EXCEPT !.from = from], n)

\* line 353: one chunk of the copy through the scratch buffer
ChunkLen(n, actual) ==
    IF n - actual > kMaxBufferSize THEN kMaxBufferSize ELSE n - actual

RECURSIVE ew_rewrite_far(_, _, _, _)
ew_rewrite_far(M, actual, n, dist) ==
    IF ~(actual < n) THEN M
    ELSE LET k == ChunkLen(n, actual)
             buffer == ReadEEPROMIntoBuffer(M.dev, M.erased,
                           M.ew.base_address + M.ew.outlen - dist, k)
             at == M.ew.base_address + M.ew.outlen - dist
             M1 == ew_write([M EXCEPT
                               !.reads = @ + 1,
                               !.rlog = Append(@, [addr |-> at, size |-> k,
                                                   lo |-> M.ew.base_address,
                                                   hi |-> M.ew.base_address
                                                          + M.ew.outlen - M.ew.bufidx])],
                            buffer, k)
         IN  ew_rewrite_far(M1, actual + k, n, dist)

ew_rewrite(M, n, dist) ==
    IF TooFarBack(dist, M.ew.outlen) THEN [M EXCEPT !.ret = 0 - 1]
    ELSE IF InBuffer(dist)
         THEN [ew_rewrite_near(M, RewriteFrom(M.ew.bufidx, dist), n)
                  EXCEPT !.ret = n]
         ELSE [ew_rewrite_far(M, 0, n, dist) EXCEPT !.ret = n]

----------------------------------------------------------------------------
(* Base64 decoder *)

\* b | 0x20
Or32(b) == IF TestBit(b, 32) THEN b ELSE b + 32

\* unsigned char _b64bits(unsigned char b); characters are their ASCII codes
\*   '+' 43  ',' 44  '-' 45  '/' 47  '=' 61  '_' 95
B64Bits(b) ==
    IF TestBit(b, 128) THEN 255
    ELSE IF TestBit(b, 64)
         THEN LET v == (Or32(b) - 97) % 256       \* unsigned char arithmetic
              IN  IF v >= 26 THEN 255
                  ELSE IF TestBit(b, 32) THEN v + 26 ELSE v
    ELSE IF b >= 48 /\ b < 58 THEN b - 48 + 52
    ELSE IF b \in {43, 45} THEN 62
    ELSE IF b \in {47, 95, 44} THEN 63
    ELSE IF b = 61 THEN 0
    ELSE 255

b64_init == [stack |-> [i \in 0..2 |-> Indeterminate], n |-> 0]

\* the source callback: up to n characters of the text that is left
\* In the text, SourceError stands for a place where the callback returns
\* an error (sr_read: a line that is too long) in place of characters.
SourceError == 0 - 1

\* the characters a pull for n can take: up to n, or up to the first error
SourceFails(text, n) ==
    \E k \in 1..Len(text) : k <= n /\ text[k] = SourceError

SourceRead(text, n) ==
    IF SourceFails(text, n) THEN 0 - 1
    ELSE IF Len(text) < n THEN Len(text) ELSE n

\* how much of the text the pull has used up: the characters it returned,
\* or, on an error, everything up to and including the place of the error
SourceTaken(text, n) ==
    IF SourceFails(text, n)
    THEN CHOOSE k \in 1..Len(text) :
            text[k] = SourceError /\ \A i \in 1..(k - 1) : text[i] # SourceError
    ELSE SourceRead(text, n)

\* the group given up only when no character at all came
TooShort_Empty(j) == j < 1

\* line 48: if (j < 2) break
TooShort(j) == j < 2

\* line 51: while (j < 4) data[j++] = '='
PadGroup(text, j) == [k \in 0..3 |-> IF k < j THEN text[k + 1] ELSE 61]

\* lines 53-54: for (j = 2; j < 4 && data[j] != '='; j++); skip = 4 - j
B64Skip(data) ==
    LET j == IF data[2] = 61 THEN 2 ELSE IF data[3] = 61 THEN 3 ELSE 4
    IN  4 - j

\* lines 56-64: the four characters packed six bits each, up to the first
\* character that is not in the alphabet
RECURSIVE B64Pack(_, _, _)
B64Pack(data, j, packed) ==
    IF j = 4 THEN [packed |-> packed, bad |-> FALSE]
    ELSE LET c == B64Bits(data[j])
         IN  IF c = 255 THEN [packed |-> packed, bad |-> TRUE]
             ELSE B64Pack(data, j + 1, packed * 64 + c)

\* the payload bytes pushed in the order they were packed
B64Unpack_Reversed(stack, packed, skip) ==
    [k \in 0..2 |->
        IF k < 3 - skip THEN (packed \div Pow2(8 * (2 - k))) % 256 ELSE stack[k]]

\* lines 65-66: for (j = 0; j < 3; j++, packed >>= 8)
\*                  if (j - skip >= 0) stack[j - skip] = packed & 0xff
B64Unpack(stack, packed, skip) ==
    [k \in 0..2 |->
        IF k + skip < 3 THEN (packed \div Pow2(8 * (k + skip))) % 256 ELSE stack[k]]

\* lines 46-67: the stack is empty and a group of 4 characters is pulled.
\* R is the call in progress: R.b64, R.src, R.buf (bytes delivered by this
\* call), R.pulls, R.idx (stack indices touched), R.bad, R.stop
B64Refill(R) ==
    LET j == SourceRead(R.src, 4)
        R1 == [R EXCEPT !.pulls = @ + 1, !.j = j,
                        !.src = SubSeq(@, SourceTaken(@, 4) + 1, Len(@))]
    IN  IF TooShort(j) THEN [R1 EXCEPT !.stop = TRUE]
        ELSE LET data == PadGroup(R.src, j)
                 skip == B64Skip(data)
                 p == B64Pack(data, 0, 0)
             IN  [R1 EXCEPT
                    !.b64.n = IF p.bad THEN 0 ELSE 3 - skip,
                    !.b64.stack = B64Unpack(@, p.packed, skip),
                    !.idx = @ \cup {k \in 0..2 : k + skip < 3},
                    !.bad = @ \/ p.bad]

\* line 68: buf[i] = b64->stack[--b64->n]; a read outside stack[0..2] is
\* undefined and yields some byte g
B64Pop(R, g) ==
    LET top == R.b64.n - 1
        byte == IF top \in 0..2 THEN R.b64.stack[top] ELSE g
    IN  [R EXCEPT !.b64.n = top,
                  !.buf = Append(@, byte),
                  !.idx = @ \cup {top}]

\* lines 45-70: for (i = 0; i < n; i++)
RECURSIVE B64Loop(_, _, _, _)
B64Loop(R, i, n, g) ==
    IF ~(i < n) THEN R
    ELSE LET R1 == IF R.b64.n = 0 THEN B64Refill(R) ELSE R
         IN  IF R1.stop THEN R1 ELSE B64Loop(B64Pop(R1, g), i + 1, n, g)

\* a read that drops the bytes an earlier call left pending
b64_read_Restart(D, text, n, g) ==
    B64Loop([b64 |-> [D EXCEPT !.n = 0], src |-> text, buf |-> << >>,
             pulls |-> 0, j |-> 4, idx |-> {}, bad |-> FALSE, stop |-> FALSE],
            0, n, g)

\* int b64_read(B64Decoder *b64, unsigned char *buf, int n); returns Len(buf)
b64_read(D, text, n, g) ==
    B64Loop([b64 |-> D, src |-> text, buf |-> << >>, pulls |-> 0, j |-> 4,
             idx |-> {}, bad |-> FALSE, stop |-> FALSE], 0, n, g)

\* the standard padded encoding a host produces (base64.b64encode)
B64Char(v) ==
    IF v < 26 THEN 65 + v
    ELSE IF v < 52 THEN 97 + (v - 26)
    ELSE IF v < 62 THEN 48 + (v - 52)
    ELSE IF v = 62 THEN 43 ELSE 47

RECURSIVE B64Encode(_)
B64Encode(B) ==
    IF Len(B) = 0 THEN << >>
    ELSE IF Len(B) = 1
         THEN <<B64Char(B[1] \div 4), B64Char((B[1] % 4) * 16), 61, 61>>
    ELSE IF Len(B) = 2
         THEN <<B64Char(B[1] \div 4),
                B64Char((B[1] % 4) * 16 + (B[2] \div 16)),
                B64Char((B[2] % 16) * 4), 61>>
    ELSE <<B64Char(B[1] \div 4),
           B64Char((B[1] % 4) * 16 + (B[2] \div 16)),
           B64Char((B[2] % 16) * 4 + (B[3] \div 64)),
           B64Char(B[3] % 64)>> \o B64Encode(SubSeq(B, 4, Len(B)))

----------------------------------------------------------------------------
(* SerialReader: the transport the decoder pulls its characters from *)

sr_init ==
    [buf |-> [i \in 0..(kMaxBufferSize - 1) |-> Indeterminate],
     buflen |-> 0, bufidx |-> 0]

\* the buffered line taken for used up while its last character is still there
SrExhausted_Early(s) == s.bufidx + 1 >= s.buflen

\* line 271: the buffered line is used up
SrExhausted(s) == s.bufidx >= s.buflen

\* the overflow test letting one character too many through
SrOverflow_Late(len) == len > kMaxBufferSize + 1

\* line 275
SrOverflow(len) == len > kMaxBufferSize

\* lines 277-279: memcpy(s->buf, command, len) with the indices reset
SrStore(s, line) ==
    [buf |-> [i \in 0..(kMaxBufferSize - 1) |->
                 IF i < Len(line) THEN line[i + 1] ELSE s.buf[i]],
     buflen |-> Len(line), bufidx |-> 0]

\* lines 281-283
SrReq(s, n, actual) ==
    LET req == n - actual
        avail == s.buflen - s.bufidx
    IN  IF req > avail THEN avail ELSE req

\* lines 270-287: while (actual < n).  S is the call in progress: S.sr,
\* S.pending (the lines ReadString will return, in order), S.cur (number of
\* the line in the buffer), S.lines (lines read so far), S.log, S.buf (bytes
\* handed to the caller), S.actual, S.ret, S.blocked (ReadString waits for a
\* line that does not come)
RECURSIVE sr_loop(_, _)
sr_loop(S0, n) ==
    \* S0 is worked out once, then the pass is made on its value S
    CHOOSE next \in {
        IF ~(S.actual < n) THEN [S EXCEPT !.ret = S.actual]
        ELSE IF SrExhausted(S.sr) /\ S.pending = << >> THEN [S EXCEPT !.blocked = TRUE]
        ELSE LET refill == SrExhausted(S.sr)
                 line == IF refill THEN Head(S.pending) ELSE << >>
                 k == S.lines + 1
                 S1 == IF refill
                       THEN [S EXCEPT
                               !.pending = Tail(@),
                               !.lines = k,
                               !.log = @ \o <<[ev |-> "line", k |-> k, val |-> Len(line)],
                                              [ev |-> "ack", k |-> k, val |-> Len(line)]>>]
                       ELSE S
             IN  IF refill /\ SrOverflow(Len(line))
                 THEN [S1 EXCEPT !.ret = 0 - 1,
                                 !.log = Append(@, [ev |-> "fail", k |-> k,
                                                    val |-> 0 - 1])]
                 ELSE LET S2 == IF refill
                                THEN [S1 EXCEPT !.sr = SrStore(@, line), !.cur = k]
                                ELSE S1
                          req == SrReq(S2.sr, n, S2.actual)
                          S3 == [S2 EXCEPT
                                   !.buf = @ \o [i \in 1..req |-> S2.sr.buf[S2.sr.bufidx + i - 1]],
                                   !.log = Append(@, [ev |-> "copy", k |-> S2.cur, val |-> req]),
                                   !.sr.bufidx = @ + req,
                                   !.actual = @ + req]
                      IN  sr_loop(S3, n)
        : S \in {S0}} : TRUE

\* int sr_read(SerialReader *s, unsigned char *buf, int n)
sr_read(s, cur, lines, log, pending, n) ==
    sr_loop([sr |-> s, pending |-> pending, cur |-> cur, lines |-> lines,
             log |-> log, buf |-> << >>, actual |-> 0, ret |-> 0,
             blocked |-> FALSE], n)

----------------------------------------------------------------------------
(* The upload: BulkWriteEEPROM drives puffs, which drives the writer.       *)

\* inputs of the model
Bases == {0, 32752}                 \* start addresses given to the Z command
Fills == {0, 255}                   \* device contents before the upload
WriteLens == {1, 36, 64}            \* n of a write call
Seeds == {122}                      \* first byte of the data of a write call
RewriteLens == {3, 65, 258}         \* n of a rewrite call
OobBytes == {0, 255}                \* what a read outside the stack may yield
RewriteDists(outlen) ==             \* dist of a rewrite call
    {1, ew_bufsiz - 1, ew_bufsiz, outlen, outlen + 1} \ {0}

\* the n bytes a write call passes: seed, seed+1, ...
Data(seed, n) == [i \in 0..(n - 1) |-> (seed + i) % 256]

NoCall == [op |-> "none", n |-> 0, dist |-> 0, before |-> 0, bufidx |-> 0,
           ret |-> 0, reads |-> 0, wbytes |-> 0, flushes |-> 0,
           wlog |-> << >>, rlog |-> << >>, wsum |-> 0]

NoFirst == [dev |-> << >>, chksum |-> Word32(0, 0), outlen |-> 0, status |-> 0]

NoReport == [status |-> 0, bytes |-> 0, expected |-> Word32(0, 0), outcome |-> "none"]

\* the checksum of a whole byte sequence, seed 1
AdlerOf(bytes) == AdlerRange(Word32(0, 1), bytes, 1, Len(bytes) + 1)

\* what a back-reference (n, dist) stands for in the stream w decoded so far:
\* n bytes, each a copy of the byte dist positions before it
LzCopy(w, n, dist) ==
    [i \in 1..n |-> w[Len(w) - dist + 1 + ((i - 1) % dist)]]

Machine ==
    [ew |-> ew, dev |-> eeprom, erased |-> fill, out |-> out, from |-> 0,
     reads |-> 0, wbytes |-> 0, flushes |-> 0, wlog |-> << >>,
     rlog |-> << >>, ret |-> 0]

\* the state a sink call leaves, and the record of the call
Commit(M, op, n, dist) ==
    /\ ew' = M.ew
    /\ eeprom' = M.dev
    /\ out' = M.out
    /\ last' = [op |-> op, n |-> n, dist |-> dist, before |-> ew.outlen,
                bufidx |-> ew.bufidx, ret |-> M.ret, reads |-> M.reads,
                wbytes |-> M.wbytes, flushes |-> M.flushes,
                wlog |-> M.wlog, rlog |-> M.rlog,
                wsum |-> last.wsum + M.wbytes]
    /\ calls' = calls + 1
    /\ UNCHANGED <<fill, report, image>>

\* puffs emits literal bytes: z->write(z->out, buf, n)
CallWrite(n, seed) ==
    /\ \E M \in {ew_write(Machine, Data(seed, n), n)} : Commit(M, "write", n, seed)
    /\ want' = want \o [i \in 1..n |-> Data(seed, n)[i - 1]]
    /\ UNCHANGED <<pc, status>>

\* puffs emits a back-reference: z->rewrite(z->out, n, dist); a negative
\* return value is a fatal decode error and puffs returns at once
CallRewrite(n, dist) ==
    \E M \in {ew_rewrite(Machine, n, dist)} :
    /\ Commit(M, "rewrite", n, dist)
    /\ want' = IF dist > Len(want) THEN want ELSE want \o LzCopy(want, n, dist)
    /\ IF M.ret < 0
       THEN pc' = "flush" /\ status' = 1
       ELSE UNCHANGED <<pc, status>>

PuffsWrite ==
    /\ pc = "puffs" /\ run = 1 /\ calls < MaxCalls
    /\ \E n \in WriteLens, seed \in Seeds :
          /\ CallWrite(n, seed)
          /\ script' = Append(script, [op |-> "write", n |-> n, arg |-> seed])
    /\ UNCHANGED <<run, first>>

PuffsRewrite ==
    /\ pc = "puffs" /\ run = 1 /\ calls < MaxCalls
    /\ \E n \in RewriteLens, dist \in RewriteDists(ew.outlen) :
          /\ CallRewrite(n, dist)
          /\ script' = Append(script, [op |-> "rewrite", n |-> n, arg |-> dist])
    /\ UNCHANGED <<run, first>>

\* any other fatal decode error (bad envelope, bad code, input ends early)
PuffsFail ==
    /\ pc = "puffs" /\ run = 1
    /\ pc' = "flush" /\ status' = 2
    /\ UNCHANGED <<ew, eeprom, fill, out, calls, last, script, run, first,
                   want, report, image>>

\* end-of-block symbol of the final block
PuffsEnd ==
    /\ pc = "puffs" /\ run = 1
    /\ pc' = "flush" /\ status' = 0
    /\ UNCHANGED <<ew, eeprom, fill, out, calls, last, script, run, first,
                   want, report, image>>

\* line 435: ew_flush(&ew), whatever puffs returned
BulkFlush ==
    /\ pc = "flush"
    /\ \E M \in {ew_flush(Machine)} :
          /\ ew' = M.ew
          /\ eeprom' = M.dev
          /\ last' = [NoCall EXCEPT !.op = "flush", !.before = ew.outlen,
                         !.bufidx = ew.bufidx, !.wbytes = M.wbytes,
                         !.flushes = M.flushes, !.wlog = M.wlog,
                         !.wsum = last.wsum + M.wbytes]
    /\ pc' = "trailer"
    /\ UNCHANGED <<fill, out, status, calls, script, run, first,
                   want, report, image>>

NoRead == [calls |-> 0, req |-> 0, asked |-> 0, ret |-> 0, start |-> 0,
           pulls |-> 0, j |-> 4, idx |-> {}, bad |-> FALSE]

B64Idle ==
    /\ b64 = b64_init
    /\ wire = << >>
    /\ src = << >> /\ plain = << >> /\ valid = FALSE /\ got = << >>
    /\ b64last = NoRead

BitsIdle == ch = 0 /\ bits = Indeterminate

SrIdle ==
    /\ sr = sr_init
    /\ host = << >>
    /\ srlog = << >>
    /\ srlast = [calls |-> 0, req |-> 0, ret |-> 0, buf |-> << >>, cur |-> 0,
                 lines |-> 0]

\* the end of the text the host sends.  lead: the last bytes of the
\* compressed stream that share a base64 group with the trailer; flip: the
\* bits of the trailer that were corrupted on the way (0 is the lowest), none
\* or one
TrailerCases ==
    {[lead |-> << >>, flip |-> {0}],
     [lead |-> <<171>>, flip |-> {31}],
     [lead |-> <<171, 3>>, flip |-> {}]}

\* what is sent when the decode failed: nothing of it is corrupted
PlainCase == [lead |-> << >>, flip |-> {}]

\* a 32-bit word with bit k flipped
FlipBit(w, k) ==
    LET half == IF k < 16 THEN w.lo ELSE w.hi
        m == Pow2(k % 16)
        flipped == IF TestBit(half, m) THEN half - m ELSE half + m
    IN  IF k < 16 THEN Word32(w.hi, flipped) ELSE Word32(flipped, w.lo)

\* the trailer that arrives for a stream whose data has checksum c
Sent(c, flip) == IF flip = {} THEN c ELSE FlipBit(c, CHOOSE k \in flip : TRUE)

\* the 4 bytes of a trailer, most significant first (RFC 1950)
Bytes4(w) == <<w.hi \div 256, w.hi % 256, w.lo \div 256, w.lo % 256>>

\* the trailer bytes combined least significant first
Expected_LittleEndian(data) ==
    Word32(data[3] * 256 + data[2], data[1] * 256 + data[0])

\* lines 439-440: for (i = 0; i < 4; i++) expected = (expected << 8) | data[i]
Expected(data) ==
    Word32(data[0] * 256 + data[1], data[2] * 256 + data[3])

\* lines 436-454: the trailer is pulled through the decoder puffs has used,
\* and the report is printed.  The decoder is where the last pull of puffs
\* left it: lead is what that pull took from the last groups of the text.
BulkTrailer ==
    /\ pc = "trailer"
    /\ \E c \in {AdlerOf(want)} :
       \E case \in (IF status = 0 THEN TrailerCases ELSE {PlainCase}) :
          \E sent \in {case.lead \o Bytes4(Sent(c, case.flip))} :
          \E E \in {b64_read(b64_init, B64Encode(sent), Len(case.lead), Indeterminate)} :
          \E R \in {b64_read(E.b64, E.src, 4, Indeterminate)} :
          LET \* unsigned char data[4] is not initialised
              data == [i \in 0..3 |->
                          IF i < Len(R.buf) THEN R.buf[i + 1] ELSE Indeterminate]
              expected == Expected(data)
          IN  /\ b64' = R.b64
              /\ src' = R.src
              /\ wire' = B64Encode(sent)
              /\ plain' = sent
              /\ valid' = TRUE
              /\ got' = E.buf \o R.buf
              /\ b64last' = [calls |-> 2, req |-> 4,
                             asked |-> Len(case.lead) + 4, ret |-> Len(R.buf),
                             start |-> Len(E.buf), pulls |-> R.pulls,
                             j |-> R.j,
                             idx |-> R.idx, bad |-> R.bad]
              /\ report' = [status |-> status, bytes |-> ew.outlen,
                            expected |-> expected,
                            outcome |-> IF expected = ew.chksum THEN "OK" ELSE "FAIL"]
    /\ pc' = "done"
    /\ UNCHANGED <<ew, eeprom, fill, out, status, calls, last, script, run, first,
                   want, image>>

SinkIdle ==
    /\ ew = ew_init(0)
    /\ fill = 255 /\ eeprom = << >> /\ out = << >>
    /\ pc = "idle" /\ status = 0 /\ calls = 0
    /\ last = NoCall
    /\ script = << >> /\ run = 1 /\ first = NoFirst
    /\ want = << >> /\ report = NoReport /\ image = "none"

Init ==
    /\ \E base \in Bases : ew = ew_init(base)
    /\ fill \in Fills
    /\ eeprom = << >>
    /\ out = << >>
    /\ pc = "puffs" /\ status = 0 /\ calls = 0
    /\ last = NoCall
    /\ script = << >> /\ run = 1 /\ first = NoFirst
    /\ want = << >> /\ report = NoReport /\ image = "none"
    /\ B64Idle /\ BitsIdle /\ SrIdle

Next ==
    \/ (PuffsWrite /\ UNCHANGED <<b64Vars, bitsVars, srVars>>)
    \/ (PuffsRewrite /\ UNCHANGED <<b64Vars, bitsVars, srVars>>)
    \/ (PuffsFail /\ UNCHANGED <<b64Vars, bitsVars, srVars>>)
    \/ (PuffsEnd /\ UNCHANGED <<b64Vars, bitsVars, srVars>>)
    \/ (BulkFlush /\ UNCHANGED <<b64Vars, bitsVars, srVars>>)
    \/ (BulkTrailer /\ UNCHANGED <<bitsVars, srVars>>)

Spec == Init /\ [][Next]_vars

----------------------------------------------------------------------------
(* The same upload run a second time against the device the first run left *)

Rerun ==
    /\ pc = "done" /\ run = 1
    /\ first' = [dev |-> eeprom, chksum |-> ew.chksum, outlen |-> ew.outlen,
                 status |-> status]
    /\ run' = 2
    /\ ew' = ew_init(ew.base_address)
    /\ out' = << >>
    /\ pc' = "puffs" /\ status' = 0 /\ calls' = 0
    /\ last' = NoCall
    /\ want' = << >> /\ report' = NoReport
    /\ b64' = b64_init
    /\ wire' = << >>
    /\ src' = << >> /\ plain' = << >> /\ valid' = FALSE /\ got' = << >>
    /\ b64last' = NoRead
    /\ UNCHANGED <<eeprom, fill, script, image>>

\* the same input text makes puffs issue the same calls again
Replay ==
    /\ pc = "puffs" /\ run = 2 /\ calls < Len(script)
    /\ LET c == script[calls + 1] IN
          IF c.op = "write" THEN CallWrite(c.n, c.arg) ELSE CallRewrite(c.n, c.arg)
    /\ UNCHANGED <<script, run, first>>

ReplayEnd ==
    /\ pc = "puffs" /\ run = 2 /\ calls = Len(script)
    /\ pc' = "flush" /\ status' = first.status
    /\ UNCHANGED <<ew, eeprom, fill, out, calls, last, script, run, first,
                   want, report, image>>

NextRerun ==
    \/ (PuffsWrite /\ UNCHANGED <<b64Vars, bitsVars, srVars>>)
    \/ (PuffsRewrite /\ UNCHANGED <<b64Vars, bitsVars, srVars>>)
    \/ (PuffsFail /\ UNCHANGED <<b64Vars, bitsVars, srVars>>)
    \/ (PuffsEnd /\ UNCHANGED <<b64Vars, bitsVars, srVars>>)
    \/ (BulkFlush /\ UNCHANGED <<b64Vars, bitsVars, srVars>>)
    \/ (BulkTrailer /\ UNCHANGED <<bitsVars, srVars>>)
    \/ (Rerun /\ UNCHANGED <<bitsVars, srVars>>)
    \/ (Replay /\ UNCHANGED <<b64Vars, bitsVars, srVars>>)
    \/ (ReplayEnd /\ UNCHANGED <<b64Vars, bitsVars, srVars>>)

SpecRerun == Init /\ [][NextRerun]_vars

----------------------------------------------------------------------------
(* The decoder on its own: a text, and b64_read calls on it *)

PlainBytes == {122, 251}            \* bytes of the encoded sequences
OddChars == {42, 95}                \* '*' and '_', written over one character
ReadLens == 0..(MaxLen + 1)         \* n of a b64_read call

RECURSIVE SeqsUpTo(_, _)
SeqsUpTo(S, n) ==
    IF n = 0 THEN {<< >>}
    ELSE LET shorter == SeqsUpTo(S, n - 1)
         IN  shorter \cup {Append(q, x) : q \in {r \in shorter : Len(r) = n - 1}, x \in S}

\* a text without its trailing '=' characters
RECURSIVE Unpadded(_)
Unpadded(t) ==
    IF t # << >> /\ t[Len(t)] = 61 THEN Unpadded(SubSeq(t, 1, Len(t) - 1)) ELSE t

\* the texts a source may hold for the bytes B: the padded encoding; the
\* encoding with one character replaced; the encoding without its padding;
\* the encoding cut one character into a group; the encoding with an error
\* of the source at some place
InitB64 ==
    /\ SinkIdle /\ BitsIdle /\ SrIdle
    /\ b64 = b64_init
    /\ got = << >>
    /\ b64last = NoRead
    /\ \E B \in SeqsUpTo(PlainBytes, MaxLen) :
          /\ plain = B
          /\ \/ valid = TRUE /\ src = B64Encode(B)
             \/ /\ valid = FALSE
                /\ \E p \in 1..Len(B64Encode(B)), c \in OddChars :
                      src = [B64Encode(B) EXCEPT ![p] = c]
             \/ /\ valid = FALSE
                /\ src = Unpadded(B64Encode(B))
                /\ src # B64Encode(B)
             \/ /\ valid = FALSE
                /\ \E p \in 1..Len(B64Encode(B)) :
                      p % 4 = 1 /\ src = SubSeq(B64Encode(B), 1, p)
             \/ /\ valid = FALSE
                /\ \E p \in 0..Len(B64Encode(B)) :
                      src = SubSeq(B64Encode(B), 1, p) \o <<SourceError>>
                            \o SubSeq(B64Encode(B), p + 1, Len(B64Encode(B)))
    /\ wire = src

B64Read ==
    /\ b64last.calls < MaxReads
    /\ \E n \in ReadLens, g \in OobBytes :
          LET R == b64_read(b64, src, n, g) IN
          /\ b64' = R.b64
          /\ src' = R.src
          /\ got' = got \o R.buf
          /\ b64last' = [calls |-> b64last.calls + 1, req |-> n,
                         asked |-> b64last.asked + n,
                         ret |-> Len(R.buf), start |-> Len(got),
                         pulls |-> R.pulls, j |-> R.j, idx |-> R.idx,
                         bad |-> R.bad]
    /\ UNCHANGED <<wire, plain, valid>>

NextB64 == B64Read /\ UNCHANGED <<sinkVars, bitsVars, srVars>>

SpecB64 == InitB64 /\ [][NextB64]_vars

----------------------------------------------------------------------------
(* The character map on its own *)

InitBits ==
    /\ SinkIdle /\ B64Idle /\ SrIdle
    /\ ch \in 0..255
    /\ bits = Indeterminate

Lookup ==
    /\ bits = Indeterminate
    /\ bits' = B64Bits(ch)
    /\ UNCHANGED ch

NextBits == Lookup /\ UNCHANGED <<sinkVars, b64Vars, srVars>>

SpecBits == InitBits /\ [][NextBits]_vars

----------------------------------------------------------------------------
(* The SerialReader on its own: lines from the host, and sr_read calls *)

LineLens == {0, 3, kMaxBufferSize, kMaxBufferSize + 1}   \* strlen(command)
SrLens == {1, 4, 6}                 \* n of a sr_read call

\* the k-th line ReadString returns, len characters long
SrLine(k, len) == [j \in 1..len |-> 65 + ((7 * k + j) % 26)]

InitSr == SinkIdle /\ B64Idle /\ BitsIdle /\ SrIdle

\* one call of sr_read; lens are the lengths of the lines that arrive while
\* it runs, and the call returns when it needs no further line
SrRead ==
    /\ srlast.calls < MaxSrCalls
    /\ \E n \in SrLens, lens \in SeqsUpTo(LineLens, MaxLines - srlast.lines) :
       \E S \in {sr_read(sr, srlast.cur, srlast.lines, srlog,
                         [i \in 1..Len(lens) |-> SrLine(srlast.lines + i, lens[i])],
                         n)} :
          /\ ~S.blocked /\ S.pending = << >>
          /\ sr' = S.sr
          /\ srlog' = S.log
          /\ srlast' = [calls |-> srlast.calls + 1, req |-> n, ret |-> S.ret,
                        buf |-> S.buf, cur |-> S.cur, lines |-> S.lines]
    /\ UNCHANGED host

NextSr == SrRead /\ UNCHANGED <<sinkVars, b64Vars, bitsVars>>

SpecSr == InitSr /\ [][NextSr]_vars

----------------------------------------------------------------------------
(* The upload of a whole device image: eeprom_size bytes, and what puffs   *)
(* may still emit after them                                               *)

ImagePatterns == {"00", "EA", "ramp"}   \* 32K of 00, 32K of EA, 00 01 .. FF 00 ..
TailLens == {3}                         \* n of a rewrite call after the image
TailDists == {1, ew_bufsiz}             \* dist of a rewrite call after the image

\* n of the write calls that emit the image
ImageChunk == 128 * ew_bufsiz

\* number of write calls that make up an image
ImageCalls == eeprom_size \div ImageChunk

\* byte i of the image
ImageByte(img, i) ==
    IF img = "00" THEN 0 ELSE IF img = "EA" THEN 234 ELSE i % 256

ImageData(img, at, n) == [i \in 0..(n - 1) |-> ImageByte(img, at + i)]

InitImage ==
    /\ ew = ew_init(0)
    /\ fill = 255
    /\ eeprom = << >>
    /\ out = << >>
    /\ pc = "puffs" /\ status = 0 /\ calls = 0
    /\ last = NoCall
    /\ script = << >> /\ run = 1 /\ first = NoFirst
    /\ want = << >> /\ report = NoReport
    /\ image \in ImagePatterns
    /\ B64Idle /\ BitsIdle /\ SrIdle

\* puffs emits the next ImageChunk bytes of the image
ImageWrite ==
    /\ pc = "puffs" /\ ew.outlen + ImageChunk <= eeprom_size
    /\ \E data \in {ImageData(image, ew.outlen, ImageChunk)} :
          /\ \E M \in {ew_write(Machine, data, ImageChunk)} :
                Commit(M, "write", ImageChunk, data[0])
          /\ want' = want \o [i \in 1..ImageChunk |-> data[i - 1]]
    /\ UNCHANGED <<pc, status, script, run, first>>

\* the stream goes on after the image is complete: one more literal
TailWrite ==
    /\ pc = "puffs" /\ ew.outlen >= eeprom_size /\ calls < ImageCalls + MaxTail
    /\ \E seed \in Seeds : CallWrite(1, seed)
    /\ UNCHANGED <<script, run, first>>

\* the stream goes on after the image is complete: one more back-reference
TailRewrite ==
    /\ pc = "puffs" /\ ew.outlen >= eeprom_size /\ calls < ImageCalls + MaxTail
    /\ \E n \in TailLens, dist \in TailDists : CallRewrite(n, dist)
    /\ UNCHANGED <<script, run, first>>

\* end-of-block symbol of the final block
ImageEnd ==
    /\ pc = "puffs" /\ ew.outlen >= eeprom_size
    /\ pc' = "flush" /\ status' = 0
    /\ UNCHANGED <<ew, eeprom, fill, out, calls, last, script, run, first,
                   want, report, image>>

NextImage ==
    \/ (ImageWrite /\ UNCHANGED <<b64Vars, bitsVars, srVars>>)
    \/ (TailWrite /\ UNCHANGED <<b64Vars, bitsVars, srVars>>)
    \/ (TailRewrite /\ UNCHANGED <<b64Vars, bitsVars, srVars>>)
    \/ (ImageEnd /\ UNCHANGED <<b64Vars, bitsVars, srVars>>)
    \/ (BulkFlush /\ UNCHANGED <<b64Vars, bitsVars, srVars>>)
    \/ (BulkTrailer /\ UNCHANGED <<bitsVars, srVars>>)

SpecImage == InitImage /\ [][NextImage]_vars

----------------------------------------------------------------------------
(* The upload with its transport: the host has sent some lines and sends   *)
(* no more; puffs pulls bytes through b64_read, whose callback is sr_read  *)

HostLens == {0, 4, 8, kMaxBufferSize + 1}   \* strlen(command) of a line

\* lines 45-70 of b64_read with b64->read = sr_read (b64_init, line 424).
\* Q is the call in progress: Q.R (the b64_read call, as in B64Loop), Q.sr,
\* Q.host, Q.cur, Q.lines, Q.log, Q.calls (sr_read calls made), Q.sret and
\* Q.sbuf (return value and bytes of the last of them), Q.blocked
\* (ReadString waits for a line)
RECURSIVE B64SrLoop(_, _, _)
B64SrLoop(Q0, i, n) ==
    \* Q0, the result S of sr_read and the refilled R1 are each worked out once
    CHOOSE next \in {
        IF ~(i < n) THEN Q
        ELSE IF Q.R.b64.n # 0
             THEN B64SrLoop([Q EXCEPT !.R = B64Pop(@, Indeterminate)], i + 1, n)
        ELSE \* j = b64->read(b64->in, data, 4)
             CHOOSE after \in {
                 LET Q1 == [Q EXCEPT !.sr = S.sr, !.host = S.pending,
                                     !.cur = S.cur, !.lines = S.lines,
                                     !.log = S.log, !.calls = @ + 1,
                                     !.sret = S.ret, !.sbuf = S.buf]
                 IN  IF S.blocked THEN [Q1 EXCEPT !.blocked = TRUE]
                     ELSE CHOOSE popped \in {
                              IF R1.stop THEN [Q1 EXCEPT !.R = R1]
                              ELSE B64SrLoop([Q1 EXCEPT
                                                !.R = B64Pop(R1, Indeterminate)],
                                             i + 1, n)
                              : R1 \in {B64Refill([Q.R EXCEPT
                                           !.src = IF S.ret < 0
                                                   THEN <<SourceError>>
                                                   ELSE S.buf])}} : TRUE
                 : S \in {sr_read(Q.sr, Q.cur, Q.lines, Q.log, Q.host, 4)}} : TRUE
        : Q \in {Q0}} : TRUE

\* b64_read(&b64, buf, n) in BulkWriteEEPROM and in puffs
b64_read_sr(n) ==
    B64SrLoop([R |-> [b64 |-> b64, src |-> << >>, buf |-> << >>, pulls |-> 0,
                      j |-> 4, idx |-> {}, bad |-> FALSE, stop |-> FALSE],
               sr |-> sr, host |-> host, cur |-> srlast.cur,
               lines |-> srlast.lines, log |-> srlog, calls |-> 0,
               sret |-> srlast.ret, sbuf |-> srlast.buf, blocked |-> FALSE],
              0, n)

\* what a b64_read call leaves in the decoder and the transport
HostCommit(Q, n) ==
    /\ b64' = Q.R.b64
    /\ got' = got \o Q.R.buf
    /\ b64last' = [calls |-> b64last.calls + 1, req |-> n,
                   asked |-> b64last.asked + n, ret |-> Len(Q.R.buf),
                   start |-> Len(got), pulls |-> Q.R.pulls, j |-> Q.R.j,
                   idx |-> Q.R.idx, bad |-> Q.R.bad]
    /\ sr' = Q.sr
    /\ host' = Q.host
    /\ srlog' = Q.log
    /\ srlast' = [calls |-> srlast.calls + Q.calls, req |-> 4, ret |-> Q.sret,
                  buf |-> Q.sbuf, cur |-> Q.cur, lines |-> Q.lines]
    /\ UNCHANGED <<wire, src, plain, valid>>

InitHost ==
    /\ ew = ew_init(0)
    /\ fill = 255 /\ eeprom = << >> /\ out = << >>
    /\ pc = "puffs" /\ status = 0 /\ calls = 0
    /\ last = NoCall
    /\ script = << >> /\ run = 1 /\ first = NoFirst
    /\ want = << >> /\ report = NoReport /\ image = "none"
    /\ B64Idle /\ BitsIdle
    /\ sr = sr_init /\ srlog = << >>
    /\ srlast = [calls |-> 0, req |-> 0, ret |-> 0, buf |-> << >>, cur |-> 0,
                 lines |-> 0]
    /\ \E lens \in SeqsUpTo(HostLens, MaxLines) :
          host = [i \in 1..Len(lens) |-> SrLine(i, lens[i])]

\* puffs pulls the next byte of the compressed stream; a short return is the
\* end of the input, a fatal decode error
PuffsPull ==
    /\ pc = "puffs" /\ b64last.calls < MaxPulls
    /\ \E Q \in {b64_read_sr(1)} :
          /\ HostCommit(Q, 1)
          /\ IF Q.blocked THEN pc' = "waiting" /\ UNCHANGED status
             ELSE IF Len(Q.R.buf) < 1 THEN pc' = "flush" /\ status' = 2
             ELSE UNCHANGED <<pc, status>>
    /\ UNCHANGED <<ew, eeprom, fill, out, calls, last, script, run, first,
                   want, report, image>>

\* lines 436-454 with the transport of the program: the trailer is pulled
\* from the lines the host has sent, and the report is printed when the call
\* returns
HostTrailer ==
    /\ pc = "trailer"
    /\ \E Q \in {b64_read_sr(4)} :
          /\ HostCommit(Q, 4)
          /\ IF Q.blocked THEN pc' = "waiting" /\ UNCHANGED report
             ELSE LET data == [i \in 0..3 |->
                                 IF i < Len(Q.R.buf) THEN Q.R.buf[i + 1]
                                 ELSE Indeterminate]
                      expected == Expected(data)
                  IN  /\ pc' = "done"
                      /\ report' = [status |-> status, bytes |-> ew.outlen,
                                    expected |-> expected,
                                    outcome |-> IF expected = ew.chksum
                                                THEN "OK" ELSE "FAIL"]
    /\ UNCHANGED <<ew, eeprom, fill, out, status, calls, last, script, run,
                   first, want, image>>

\* puffs finds the byte it has just pulled malformed (bad envelope, bad
\* block type, bad code): a fatal decode error
HostFail == b64last.calls >= 1 /\ b64last.ret = 1 /\ PuffsFail

\* the byte puffs has just pulled completes the final block
HostEnd == b64last.calls >= 1 /\ b64last.ret = 1 /\ PuffsEnd

NextHost ==
    \/ (PuffsPull /\ UNCHANGED bitsVars)
    \/ (HostFail /\ UNCHANGED <<b64Vars, bitsVars, srVars>>)
    \/ (HostEnd /\ UNCHANGED <<b64Vars, bitsVars, srVars>>)
    \/ (BulkFlush /\ UNCHANGED <<b64Vars, bitsVars, srVars>>)
    \/ (HostTrailer /\ UNCHANGED bitsVars)

SpecHost == InitHost /\ [][NextHost]_vars

\* BulkWriteEEPROM runs on: the loop() of the sketch does nothing else while
\* a command is being handled
SpecHostFair == SpecHost /\ WF_vars(NextHost)

----------------------------------------------------------------------------
(* Properties of the decoder *)

\* C6: reading Len(B) bytes with one b64_read from the padded base64
\* encoding of B returns exactly B, for the lengths with remainder 0, 1 and 2.
C6_RoundTrip ==
    (valid /\ b64last.calls >= 1 /\ b64last.start = 0 /\ b64last.req = Len(plain))
        => (b64last.ret = Len(plain) /\ got = plain)

\* C6 witness: a sequence ending in a 1-byte remainder was read back
C6_Witness ==
    /\ valid /\ b64last.calls = 1 /\ b64last.req = Len(plain)
    /\ Len(plain) = 4 /\ got = plain /\ plain[1] # plain[4]

\* C7: the character map takes 'A'-'Z' to 0..25, 'a'-'z' to 26..51, '0'-'9' to
\* 52..61, '+' and '-' to 62, '/' and '_' to 63, and reports none of them
\* invalid.
C7_AlphabetMap ==
    bits # Indeterminate =>
        /\ (ch \in 65..90 => bits = ch - 65)
        /\ (ch \in 97..122 => bits = ch - 97 + 26)
        /\ (ch \in 48..57 => bits = ch - 48 + 52)
        /\ (ch \in {43, 45} => bits = 62)
        /\ (ch \in {47, 95} => bits = 63)

\* C8: when a pulled group holds a character outside the alphabet, the call
\* delivers no byte of that group, returns fewer bytes than requested and
\* leaves the pending count at 0.
C8_InvalidEndsStream ==
    b64last.bad => (b64.n = 0 /\ b64last.ret < b64last.req)

\* C9: the pending count is always in 0..3 and every stack access is at an
\* index 0..2.
C9_CountAndIndex ==
    /\ b64.n \in 0..3
    /\ b64last.idx \subseteq 0..2

----------------------------------------------------------------------------
(* Properties of the sink *)

\* the last call was an accepted rewrite(n, dist)
Rewrote == last.op = "rewrite" /\ last.dist <= last.before

\* the n bytes the last call had to append repeat the stream dist bytes back
CopiedFromBehind ==
    /\ Len(out) = last.before + last.n
    /\ \A i \in 1..last.n :
          out[last.before + i] = out[last.before + i - last.dist]

\* C1: a back-reference with capacity <= distance <= total_emitted, resolved
\* by re-reading the storage device, appends exactly the length bytes that
\* were emitted distance positions earlier.
C1_FarCopy ==
    (Rewrote /\ last.dist >= ew_bufsiz) => CopiedFromBehind

\* C2: a back-reference with 1 <= distance < capacity and distance <=
\* total_emitted appends length bytes, each equal to the byte emitted distance
\* positions earlier, also when distance < length and when the buffer fills
\* and is flushed during the copy.
C2_NearCopy ==
    (Rewrote /\ last.dist >= 1 /\ last.dist < ew_bufsiz) => CopiedFromBehind

\* C2 witness: a self-overlapping copy during which the buffer was flushed
C2_Witness ==
    /\ Rewrote /\ last.dist < last.n /\ last.dist < ew_bufsiz
    /\ last.bufidx > 0 /\ last.bufidx < ew_bufsiz /\ last.flushes >= 1
    /\ last.ret = last.n
    /\ CopiedFromBehind

\* C3 as stated: distance capacity - 1 is resolved with no device read and
\* distance capacity with exactly one, whatever the length.
C3_OneRead ==
    /\ (Rewrote /\ last.dist = ew_bufsiz - 1) => last.reads = 0
    /\ (Rewrote /\ last.dist = ew_bufsiz) => last.reads = 1

\* C3 amended: distance capacity - 1 is resolved with no device read;
\* distance capacity costs one read per chunk of at most kMaxBufferSize bytes,
\* which is one read exactly when the length is at most kMaxBufferSize.
C3_ReadPerChunk ==
    /\ (Rewrote /\ last.dist = ew_bufsiz - 1) => last.reads = 0
    /\ (Rewrote /\ last.dist = ew_bufsiz) =>
          /\ last.reads = (last.n + kMaxBufferSize - 1) \div kMaxBufferSize
          /\ (last.reads = 1) <=> (last.n <= kMaxBufferSize)

\* C3 witness: a copy from distance capacity that is longer than one chunk
C3_Witness ==
    /\ Rewrote /\ last.dist = ew_bufsiz
    /\ last.n > kMaxBufferSize /\ last.reads > 1

\* C4: rewrite(n, dist) with dist > total_emitted returns -1 and changes
\* nothing: buffer, cursor, total, checksum and device stay as they were, and
\* the device is neither read nor written.
C4_RejectLeavesState ==
    [][(calls' = calls + 1 /\ last'.op = "rewrite" /\ last'.dist > ew.outlen)
          => /\ last'.ret = 0 - 1
             /\ ew' = ew /\ eeprom' = eeprom /\ out' = out
             /\ last'.reads = 0 /\ last'.wbytes = 0 /\ last'.flushes = 0]_vars

\* C4 witness: a rejected back-reference after some bytes were emitted
C4_Witness ==
    /\ last.op = "rewrite" /\ last.dist > last.before /\ last.before > 0
    /\ last.ret = 0 - 1 /\ ew.outlen = last.before /\ status # 0

\* C5: once puffs has returned a fatal decode error, the upload writes no
\* further byte to the storage device.
C5_NoWriteAfterError ==
    (status # 0 /\ last.op = "flush") => last.wbytes = 0

\* C10: the same upload run again on the device the first run left ends with
\* the same device contents and the same checksum as the first run.
C10_RerunSame ==
    (run = 2 /\ pc = "done") =>
        (eeprom = first.dev /\ ew.chksum = first.chksum)

----------------------------------------------------------------------------
(* Invariants of the sink during the stream *)

\* between ew_init and the final flush
InStream == pc \in {"puffs", "flush"}

\* C14 as stated: the write cursor equals total_emitted mod capacity.
C14_CursorIsTotalMod ==
    InStream => ew.bufidx = ew.outlen % ew_bufsiz

\* C14 amended: the write cursor is congruent to total_emitted modulo the
\* capacity and lies in 0..capacity; it is 0 only while nothing has been
\* emitted, and it is capacity (a full buffer that is flushed by the next
\* store) whenever total_emitted is a positive multiple of capacity.
C14_CursorCongruent ==
    InStream =>
        /\ ew.bufidx \in 0..ew_bufsiz
        /\ ew.bufidx % ew_bufsiz = ew.outlen % ew_bufsiz
        /\ (ew.bufidx = 0) <=> (ew.outlen = 0)

\* C14 witness: a full buffer, after an earlier full buffer was flushed
C14_Witness ==
    /\ InStream /\ ew.bufidx = ew_bufsiz /\ ew.outlen > ew_bufsiz
    /\ last.flushes >= 1

\* C15: the ring buffer holds the most recent min(total_emitted, capacity)
\* emitted bytes: buf[(outlen - k) mod 64] = out[outlen - k] for every k in
\* 1..min(outlen, 64), also right after a flush.
C15_BufferHoldsRecent ==
    InStream =>
        \A k \in 1..(IF ew.outlen < ew_bufsiz THEN ew.outlen ELSE ew_bufsiz) :
            ew.buf[(ew.outlen - k) % ew_bufsiz] = out[ew.outlen - k + 1]

\* C15 witness: a flush happened inside the last call, and the buffer holds
\* bytes stored before it next to bytes stored after it
C15_Witness ==
    /\ InStream /\ last.flushes >= 1
    /\ ew.bufidx \in 1..(ew_bufsiz - 1) /\ ew.outlen > ew_bufsiz
    /\ ew.buf[ew.bufidx] = out[ew.outlen - ew_bufsiz + 1]
    /\ ew.buf[ew.bufidx - 1] = out[ew.outlen]

\* the device cells addr, addr + 1, .., addr + size - 1
Cells(addr, size) == {SetAddress(addr + i) : i \in 0..(size - 1)}

\* C17: a flush with k = bufidx buffered bytes extends the checksum over
\* exactly those k bytes, writes exactly those k bytes to the device at
\* base_address + outlen - k and sets bufidx to 0; outlen, base_address and
\* the buffer contents stay; with k = 0 neither checksum nor device changes,
\* and a second flush right after the first changes nothing.
C17_FlushEffect ==
    InStream =>
    \E F \in {ew_flush(Machine)} : \E G \in {ew_flush(F)} :
    LET k == ew.bufidx
        at == ew.base_address + ew.outlen - k
    IN  /\ F.ew.chksum = AdlerRange(ew.chksum, ew.buf, 0, k)
        /\ \A i \in 0..(k - 1) : ReadByteFrom(F.dev, fill, at + i) = ew.buf[i]
        /\ DOMAIN F.dev = (DOMAIN eeprom) \cup Cells(at, k)
        /\ \A a \in (DOMAIN eeprom) \ Cells(at, k) : F.dev[a] = eeprom[a]
        /\ F.wbytes = k
        /\ F.wlog = <<[addr |-> at, size |-> k]>>
        /\ F.ew = [ew EXCEPT !.bufidx = 0, !.chksum = F.ew.chksum]
        /\ (k = 0 => (F.ew.chksum = ew.chksum /\ F.dev = eeprom))
        /\ G.ew = F.ew /\ G.dev = F.dev

\* C17 witness: the final flush wrote a partly filled buffer
C17_Witness ==
    /\ last.op = "flush" /\ last.bufidx \in 1..(ew_bufsiz - 1)
    /\ last.wbytes = last.bufidx /\ ew.bufidx = 0
    /\ ew.outlen > ew_bufsiz

\* C18: every device write issued inside ew_write or ew_rewrite is a full
\* chunk of capacity bytes, the j-th of the stream at base_address + 64 * j;
\* only the flush at the end of the stream may write fewer.
C18_FullChunks ==
    last.op \in {"write", "rewrite"} =>
        LET j0 == (last.before - last.bufidx) \div ew_bufsiz IN
        /\ (last.before - last.bufidx) % ew_bufsiz = 0
        /\ Len(last.wlog) = last.flushes
        /\ \A i \in 1..Len(last.wlog) :
              /\ last.wlog[i].size = ew_bufsiz
              /\ last.wlog[i].addr = ew.base_address + ew_bufsiz * (j0 + i - 1)

\* C18 witness: one call flushed the buffer several times
C18_Witness ==
    /\ last.op = "rewrite" /\ last.flushes >= 2 /\ last.before > ew_bufsiz
    /\ last.wbytes = ew_bufsiz * last.flushes

\* C20: after the final flush the running checksum is the base-65521
\* checksum, seed 1, of the whole emitted sequence, however it was split into
\* chunks and whether the bytes came as literals, near or far back-references.
C20_ChecksumOfStream ==
    pc = "trailer" =>
        /\ Len(out) = ew.outlen
        /\ ew.chksum = AdlerOf(out)

\* C20 witness: a stream of literals, a near and a far back-reference that
\* was flushed in several chunks
C20_Witness ==
    /\ pc = "trailer" /\ status = 0 /\ ew.outlen > 2 * ew_bufsiz
    /\ \E i, j \in 1..Len(script) :
          /\ script[i].op = "rewrite" /\ script[i].arg < ew_bufsiz
          /\ script[j].op = "rewrite" /\ script[j].arg >= ew_bufsiz
    /\ ew.chksum = AdlerOf(out)

----------------------------------------------------------------------------
(* Properties of the end of the upload *)

\* the last 4 bytes of the text the host sent, decoded
SentTrailer(bytes) == SubSeq(bytes, Len(bytes) - 3, Len(bytes))

\* C11: an upload of a valid stream reports OK when its trailer is the
\* checksum of the data the stream encodes and FAIL when one bit of that
\* trailer is flipped; reading the trailer changes neither the device nor the
\* byte count, so both uploads leave the same device contents and count.
C11_TrailerOnlyChangesReport ==
    [][(pc = "trailer" /\ status = 0) =>
          /\ eeprom' = eeprom /\ ew' = ew
          /\ report'.bytes = ew.outlen
          /\ (report'.outcome = "OK")
                <=> (SentTrailer(plain') = Bytes4(AdlerOf(want)))]_vars

----------------------------------------------------------------------------
(* Properties of the transport *)

\* characters of line k handed to the caller by the first i events of log
RECURSIVE CopiedOf(_, _, _)
CopiedOf(log, k, i) ==
    IF i = 0 THEN 0
    ELSE CopiedOf(log, k, i - 1)
            + (IF log[i].ev = "copy" /\ log[i].k = k THEN log[i].val ELSE 0)

\* C13: every line sr_read takes is acknowledged exactly once with its
\* character count, the acknowledgement comes before any character of the
\* line is handed to the caller, and a line is read only when the line
\* buffered before it has been handed out completely.
C13_AckThenBytes ==
    \A i \in 1..Len(srlog) :
        /\ srlog[i].ev = "line" =>
              /\ i < Len(srlog)
              /\ srlog[i + 1] = [ev |-> "ack", k |-> srlog[i].k, val |-> srlog[i].val]
              /\ \A j \in 1..Len(srlog) :
                    (srlog[j].ev = "line" /\ srlog[j].k = srlog[i].k) => j = i
              /\ \A j \in 1..(i - 1) :
                    (srlog[j].ev = "line" /\ srlog[j].k = srlog[i].k - 1) =>
                        \/ srlog[j].val > kMaxBufferSize
                        \/ CopiedOf(srlog, srlog[j].k, i) = srlog[j].val
        /\ srlog[i].ev = "ack" =>
              i > 1 /\ srlog[i - 1].ev = "line" /\ srlog[i - 1].k = srlog[i].k
        /\ (srlog[i].ev = "copy" /\ srlog[i].val > 0) =>
              \E j \in 1..(i - 1) : srlog[j].ev = "ack" /\ srlog[j].k = srlog[i].k

\* C13 witness: three lines were read, one of them empty, and the last call
\* returned characters of two lines
C13_Witness ==
    /\ srlast.lines = 3 /\ srlast.calls >= 2 /\ srlast.ret = 4
    /\ \E i \in 1..Len(srlog) : srlog[i].ev = "ack" /\ srlog[i].val = 0
    /\ \E i, j \in 1..Len(srlog) :
          /\ srlog[i].ev = "copy" /\ srlog[j].ev = "copy"
          /\ srlog[i].val > 0 /\ srlog[j].val > 0
          /\ srlog[i].k # srlog[j].k
          /\ i > Len(srlog) - 4 /\ j > Len(srlog) - 4

----------------------------------------------------------------------------
(* Properties of a whole upload *)

\* C12: the checksum with a = 1, b = 0 at the start, a = (a + byte) mod 65521
\* and b = (b + a) mod 65521 per byte, combined as (b << 16) | a, is
\* 0x80000001 over 32768 bytes of 0x00 and 0xDD1F06DC over 32768 bytes of
\* 0xEA, and the sink starts its checksum at the combined value 1.
C12_ReferenceChecksums ==
    /\ ew_init(ew.base_address).chksum = Word32(0, 1)
    /\ (pc = "trailer" /\ ew.outlen = eeprom_size /\ image = "00") =>
          (ew.chksum = Word32(32768, 1) /\ AdlerOf(out) = Word32(32768, 1))
    /\ (pc = "trailer" /\ ew.outlen = eeprom_size /\ image = "EA") =>
          (ew.chksum = Word32(56607, 1756) /\ AdlerOf(out) = Word32(56607, 1756))

\* C12 witness: 32768 bytes of 0xEA have been uploaded and flushed
C12_Witness ==
    /\ pc = "trailer" /\ image = "EA" /\ ew.outlen = eeprom_size
    /\ Len(out) = eeprom_size /\ \A i \in 1..Len(out) : out[i] = 234
    /\ ew.chksum = Word32(56607, 1756)

\* C19: after the final flush the device holds the emitted stream once and in
\* order, device[base_address + i] = out[i] for every i below outlen, and
\* outlen is the number of bytes that were written to the device.
C19_DeviceHoldsStream ==
    pc = "trailer" =>
        /\ \A i \in 0..(ew.outlen - 1) :
              ReadByteFrom(eeprom, fill, ew.base_address + i) = out[i + 1]
        /\ last.wsum = ew.outlen

\* C21: every storage read ew_rewrite issues for a back-reference with
\* distance >= capacity lies inside the region flushed so far,
\* [base_address, base_address + outlen - bufidx) at the moment of the read
C21_ReadsCommitted ==
    \A i \in 1..Len(last.rlog) :
        /\ last.rlog[i].addr >= last.rlog[i].lo
        /\ last.rlog[i].addr + last.rlog[i].size <= last.rlog[i].hi

\* C22: a non-negative value returned by ew_rewrite is the number of bytes
\* the call appended (the increase of outlen); a back-reference cut short at
\* the output limit is not reported as a copy of n bytes
C22_ReturnIsAppended ==
    (last.op = "rewrite" /\ last.ret >= 0) => ew.outlen - last.before = last.ret

\* C23: the total emitted never exceeds the device size: outlen <= eeprom_size
C23_OutlenWithinDevice == ew.outlen <= eeprom_size

\* C24: for a start address below eeprom_size, every address passed to a
\* device write or read during the upload is below eeprom_size
C24_AddressesInDevice ==
    ew.base_address < eeprom_size =>
        /\ \A i \in 1..Len(last.wlog) :
              last.wlog[i].size > 0 =>
                  last.wlog[i].addr + last.wlog[i].size <= eeprom_size
        /\ \A i \in 1..Len(last.rlog) :
              last.rlog[i].size > 0 =>
                  last.rlog[i].addr + last.rlog[i].size <= eeprom_size

\* C25: on a valid text the bytes delivered do not depend on how they are
\* requested: the results of successive b64_read calls, concatenated, are
\* the result of one b64_read for the sum of the requests
C25_SplitReads ==
    (valid /\ b64last.calls >= 2) =>
        got = b64_read(b64_init, B64Encode(plain), b64last.asked, Indeterminate).buf

\* C25 witness: the first call stopped inside a group of 3 bytes and the
\* second went on into the next group
C25_Witness ==
    /\ valid /\ b64last.calls = 2 /\ Len(plain) = 4 /\ plain[2] # plain[3]
    /\ b64last.start = 2 /\ b64last.ret = 2 /\ got = plain

\* C26: when the stack is empty and the source returns fewer than 2
\* characters for the pull of 4 (an error return included), b64_read stops,
\* returns the number of bytes delivered so far and leaves the pending count
\* at 0; when the source returns 2 or 3 characters the group yields 1 or 2
\* bytes, as the group padded with '=' does
C26_ShortPull ==
    /\ (b64last.pulls >= 1 /\ b64last.j < 2) =>
          /\ b64.n = 0
          /\ b64last.ret < b64last.req
          /\ Len(got) = b64last.start + b64last.ret
          /\ (b64last.calls = 1 /\ ~b64last.bad) =>
                got = SubSeq(plain, 1, b64last.ret)
    /\ (b64last.calls >= 1 /\ wire = Unpadded(B64Encode(plain))
            /\ wire # B64Encode(plain)) =>
          \E P \in {b64_read(b64_init, B64Encode(plain), b64last.asked,
                              Indeterminate)} :
             got = P.buf /\ b64.n = P.b64.n

\* C26 witness: a text of 6 characters for 4 bytes (the last pull returned 2
\* characters) was read back whole, and a further call found the source
\* empty and stopped
C26_Witness ==
    /\ wire = Unpadded(B64Encode(plain)) /\ Len(wire) = 6 /\ got = plain
    /\ b64last.calls = 2 /\ b64last.start = 4 /\ b64last.req > 0
    /\ b64last.pulls = 1 /\ b64last.j = 0 /\ b64last.ret = 0 /\ b64.n = 0

\* C27: a line longer than kMaxBufferSize makes sr_read return -1 with no
\* character of that line copied into its buffer or handed to the caller,
\* and 0 <= bufidx <= buflen <= kMaxBufferSize in every reachable state
C27_OverlongLine ==
    /\ 0 <= sr.bufidx /\ sr.bufidx <= sr.buflen /\ sr.buflen <= kMaxBufferSize
    /\ \A i \in 1..Len(srlog) :
          (srlog[i].ev = "line" /\ srlog[i].val > kMaxBufferSize) =>
              /\ i + 2 <= Len(srlog)
              /\ srlog[i + 2] = [ev |-> "fail", k |-> srlog[i].k, val |-> 0 - 1]
              /\ \A j \in 1..Len(srlog) :
                    srlog[j].ev = "copy" => srlog[j].k # srlog[i].k
    /\ (srlog # << >> /\ srlog[Len(srlog)].ev = "fail") <=> srlast.ret = 0 - 1
    /\ srlast.ret = 0 - 1 => sr.bufidx = sr.buflen
    /\ \A i \in 0..(sr.buflen - 1) :
          sr.buf[i] = SrLine(srlast.cur, sr.buflen)[i + 1]
    /\ \A i \in 1..Len(srlog) :
          srlog[i].ev = "line" /\ srlog[i].k = srlast.cur =>
              srlog[i].val = sr.buflen

\* C27 witness: a call that had handed out 3 characters of an earlier line
\* asked for more, received a line of 65 characters and returned -1
C27_Witness ==
    /\ srlast.ret = 0 - 1 /\ Len(srlast.buf) = 3
    /\ srlog[Len(srlog) - 2] = [ev |-> "line", k |-> srlast.lines,
                                val |-> kMaxBufferSize + 1]

\* C28: after a fatal decode error the STATUS report is emitted without any
\* further line from the host: once puffs has returned non-zero,
\* BulkWriteEEPROM reaches its status output
C28_ReportAfterError ==
    (pc = "flush" /\ status # 0) ~> (pc = "done")

====
